---- MODULE Spec2Model ----
(***************************************************************************)
(* Index structs of gpt_index/data_structs/data_structs_v2.py, the node    *)
(* postprocessors of gpt_index/indices/postprocessor/node.py and the list  *)
(* index of gpt_index/indices/list/base.py.                                *)
(*                                                                         *)
(* Python dicts are functions with a finite domain, lists are sequences,   *)
(* sets are sets.  Optional[str] = None is the string None, and            *)
(* Optional[int] = None is NoIndex.  Every method is an operator from the  *)
(* fields before the call to the fields after it, together with the value  *)
(* returned and the exception raised ("" when the call returns normally);  *)
(* a method that raises half way keeps the assignments made before the     *)
(* raise, as the Python object does.  Each action is one call of a method  *)
(* and records the call in the variable call.                              *)
(***************************************************************************)
EXTENDS Integers, Sequences, FiniteSets, TLC

VARIABLES
    nodes_dict,                \* IndexDict.nodes_dict: vector id -> node id
    doc_id_dict,               \* IndexDict.doc_id_dict: ref_doc_id -> list of vector ids
    embeddings_dict,           \* IndexDict.embeddings_dict: id -> embedding
    all_nodes,                 \* IndexGraph.all_nodes: position -> node id
    root_nodes,                \* IndexGraph.root_nodes: position -> node id
    node_id_to_index,          \* IndexGraph.node_id_to_index: node id -> position
    node_id_to_child_indices,  \* IndexGraph.node_id_to_child_indices: node id -> set of positions
    table,                     \* KeywordTable.table / KG.table: keyword -> set of node ids
    rel_map,                   \* KG.rel_map: subject -> list of (object, relation)
    tagged,                    \* history: the (keyword, node id) pairs add_node was given
    nodes,                     \* IndexList.nodes: list of node ids
    docstore,                  \* GPTListIndex._docstore: node id -> node
    required_keywords,         \* KeywordNodePostprocessor.required_keywords
    exclude_keywords,          \* KeywordNodePostprocessor.exclude_keywords
    similarity_cutoff,         \* SimilarityPostprocessor.similarity_cutoff: <<>> is None
    call                       \* the last method call: its arguments, result and exception

dictVars  == <<nodes_dict, doc_id_dict, embeddings_dict>>
graphVars == <<all_nodes, root_nodes, node_id_to_index, node_id_to_child_indices>>
tableVars == <<table, rel_map, tagged>>
listVars  == <<nodes, docstore>>
ppVars    == <<required_keywords, exclude_keywords, similarity_cutoff>>
vars      == <<nodes_dict, doc_id_dict, embeddings_dict, all_nodes, root_nodes,
               node_id_to_index, node_id_to_child_indices, table, rel_map, tagged,
               nodes, docstore, required_keywords, exclude_keywords, similarity_cutoff,
               call>>

(***************************************************************************)
(* Bounds of the model and the values the calls draw their arguments from. *)
(***************************************************************************)
MaxListLen == 2

MaxPos == 1

None == "None"

NoIndex == 0 - 1

NodeIds == {"a", "b"}

DictNodeIds == {"a", "b"}

TextIds == {"a", "v"}

DocIds == {"D", "E"}

Positions == 0 .. MaxPos

ChildLists == {<<>>, <<"a">>, <<"b">>, <<"a", "b">>}

MaxNodes == 4

MaxRels == 2

ListNodeIds == {"a", "b", "c"}

KeywordLists == {<<>>, <<"k">>, <<"K">>, <<"k", "m">>, <<"m", "k">>, <<"m", "m">>, <<"K", "m">>}

KGWords == {"x", "y"}

Relations == {"r"}

Depths == {1, 2, 3}

SetOrders == {<<"a", "b">>, <<"b", "a">>}

MaxTextLen == 3

Chars == {"x", "y", " "}

Texts == UNION {[1 .. n -> Chars] : n \in 0 .. MaxTextLen}

RequiredLists == {<<>>, << <<"x">> >>, << <<"x">>, <<"y">> >>, << <<"x", "y">> >>}

ExcludeLists == {<<>>, << <<"y">> >>, << <<"x", "y">> >>}

SecondTexts == {<<"x">>, <<"x", " ", "y">>}

PPNodeLists ==
    {<<>>}
    \cup {<<[doc_id |-> "a", text |-> t]>> : t \in Texts}
    \cup {<<[doc_id |-> "a", text |-> t], [doc_id |-> "b", text |-> u]>> :
              t \in Texts, u \in SecondTexts}

(***************************************************************************)
(* Python dict and list primitives.                                        *)
(***************************************************************************)
EmptyDict == [k \in {} |-> None]

DictSet(d, k, v) == [x \in (DOMAIN d) \cup {k} |-> IF x = k THEN v ELSE d[x]]

DictDel(d, k) == [x \in (DOMAIN d) \ {k} |-> d[x]]

Range(s) == {s[i] : i \in DOMAIN s}

(***************************************************************************)
(* IndexDict.add_node(node, text_id)                                       *)
(***************************************************************************)
\* add_node that takes the "NOTE: unused" on text_id at its word and always
\* uses the node's own id as the vector id.
IndexDict_add_node_IgnoreTextId(nd, dd, node_id, ref_doc_id, text_id) ==
    LET vector_id == node_id
        dd0 == IF ref_doc_id # None /\ ref_doc_id \notin DOMAIN dd
               THEN DictSet(dd, ref_doc_id, <<>>)
               ELSE dd
    IN  [nodes_dict |-> DictSet(nd, vector_id, node_id),
         doc_id_dict |-> IF ref_doc_id # None
                         THEN DictSet(dd0, ref_doc_id, Append(dd0[ref_doc_id], vector_id))
                         ELSE dd,
         ret |-> vector_id, raised |-> ""]

IndexDict_add_node(nd, dd, node_id, ref_doc_id, text_id) ==
    LET vector_id == IF text_id # None THEN text_id ELSE node_id
        nd1 == DictSet(nd, vector_id, node_id)
        dd1 == IF ref_doc_id # None
               THEN LET dd0 == IF ref_doc_id \notin DOMAIN dd
                               THEN DictSet(dd, ref_doc_id, <<>>)
                               ELSE dd
                    IN  DictSet(dd0, ref_doc_id, Append(dd0[ref_doc_id], vector_id))
               ELSE dd
    IN  [nodes_dict |-> nd1, doc_id_dict |-> dd1, ret |-> vector_id, raised |-> ""]

(***************************************************************************)
(* IndexDict.delete(doc_id).  The loop deletes the vector ids in list      *)
(* order; del on a missing key raises KeyError and ends the call with the  *)
(* earlier deletions done.  doc_id_dict is never assigned.                 *)
(***************************************************************************)
RECURSIVE DelVectorIds(_, _)
DelVectorIds(nd, vector_ids) ==
    IF vector_ids = <<>>
    THEN [nodes_dict |-> nd, raised |-> ""]
    ELSE IF Head(vector_ids) \notin DOMAIN nd
         THEN [nodes_dict |-> nd, raised |-> "KeyError"]
         ELSE DelVectorIds(DictDel(nd, Head(vector_ids)), Tail(vector_ids))

\* IndexDict.delete without its membership check, as if it read
\* self.doc_id_dict.get(doc_id, []).
IndexDict_delete_NoCheck(nd, dd, doc_id) ==
    LET r == DelVectorIds(nd, IF doc_id \in DOMAIN dd THEN dd[doc_id] ELSE <<>>)
    IN  [nodes_dict |-> r.nodes_dict, doc_id_dict |-> dd, raised |-> r.raised]

IndexDict_delete(nd, dd, doc_id) ==
    IF doc_id \notin DOMAIN dd
    THEN [nodes_dict |-> nd, doc_id_dict |-> dd, raised |-> "ValueError"]
    ELSE LET r == DelVectorIds(nd, dd[doc_id])
         IN  [nodes_dict |-> r.nodes_dict, doc_id_dict |-> dd, raised |-> r.raised]

(***************************************************************************)
(* The IndexDict as a state machine: any sequence of add_node and delete.  *)
(***************************************************************************)
InitGraphFields ==
    /\ all_nodes = EmptyDict
    /\ root_nodes = EmptyDict
    /\ node_id_to_index = EmptyDict
    /\ node_id_to_child_indices = EmptyDict

InitDictFields ==
    /\ nodes_dict = EmptyDict
    /\ doc_id_dict = EmptyDict
    /\ embeddings_dict = EmptyDict

InitTableFields ==
    /\ table = EmptyDict
    /\ rel_map = EmptyDict
    /\ tagged = {}

InitListFields ==
    /\ nodes = <<>>
    /\ docstore = EmptyDict

InitPPFields ==
    /\ required_keywords = <<>>
    /\ exclude_keywords = <<>>
    /\ similarity_cutoff = <<>>

InitDict ==
    /\ nodes_dict = EmptyDict
    /\ doc_id_dict = EmptyDict
    /\ embeddings_dict \in {EmptyDict, [k \in {"a"} |-> <<1, 0>>]}
    /\ InitGraphFields
    /\ InitTableFields
    /\ InitListFields
    /\ InitPPFields
    /\ call = [op |-> "init"]

DictAddNode ==
    \E node_id \in DictNodeIds, ref_doc_id \in DocIds \cup {None}, text_id \in TextIds \cup {None} :
        LET r == IndexDict_add_node(nodes_dict, doc_id_dict, node_id, ref_doc_id, text_id)
        IN  /\ \A d \in DOMAIN r.doc_id_dict : Len(r.doc_id_dict[d]) <= MaxListLen
            /\ nodes_dict' = r.nodes_dict
            /\ doc_id_dict' = r.doc_id_dict
            /\ call' = [op |-> "add_node", node_id |-> node_id, ref_doc_id |-> ref_doc_id,
                        text_id |-> text_id, ret |-> r.ret, raised |-> r.raised]
            /\ UNCHANGED <<embeddings_dict, graphVars, tableVars, listVars, ppVars>>

DictDelete ==
    \E doc_id \in DocIds :
        LET r == IndexDict_delete(nodes_dict, doc_id_dict, doc_id)
        IN  /\ nodes_dict' = r.nodes_dict
            /\ doc_id_dict' = r.doc_id_dict
            /\ call' = [op |-> "delete", doc_id |-> doc_id, raised |-> r.raised]
            /\ UNCHANGED <<embeddings_dict, graphVars, tableVars, listVars, ppVars>>

NextDict == DictAddNode \/ DictDelete

SpecDict == InitDict /\ [][NextDict]_vars

(***************************************************************************)
(* The scenario of the fan-out delete: add_node calls, then one delete.    *)
(***************************************************************************)
NextDictAddThenDelete ==
    \/ call.op # "delete" /\ DictAddNode
    \/ call.op # "delete" /\ DictDelete

SpecDictAddThenDelete == InitDict /\ [][NextDictAddThenDelete]_vars

(***************************************************************************)
(* Claims about IndexDict.                                                 *)
(***************************************************************************)

\* C1: on an IndexDict reached by add_node calls only, a delete(D) of a
\* recorded ref_doc_id D that returns removes from nodes_dict exactly the
\* vector ids recorded for D, leaves the other nodes_dict entries and the
\* other doc_id_dict entries as they were, and removes the key D from
\* doc_id_dict.  (Checked under SpecDictAddThenDelete.)
C1_FanOutDelete ==
    [][(call'.op = "delete" /\ call'.raised = "" /\ call'.doc_id \in DOMAIN doc_id_dict)
       => /\ nodes_dict' = [v \in (DOMAIN nodes_dict) \ Range(doc_id_dict[call'.doc_id])
                               |-> nodes_dict[v]]
          /\ doc_id_dict' = DictDel(doc_id_dict, call'.doc_id)]_vars

\* C2: when delete(D) has returned normally, a delete(D) that follows it
\* directly raises the not-found error, ValueError.
C2_SecondDeleteNotFound ==
    [][(/\ call.op = "delete" /\ call.raised = ""
        /\ call'.op = "delete" /\ call'.doc_id = call.doc_id)
       => call'.raised = "ValueError"]_vars

\* C3: every vector id in any list of doc_id_dict is a key of nodes_dict.
C3_DocIdDictRefsResolve ==
    \A d \in DOMAIN doc_id_dict : Range(doc_id_dict[d]) \subseteq DOMAIN nodes_dict

\* C4: delete(doc_id) with a doc_id that is no key of doc_id_dict raises
\* ValueError and leaves nodes_dict, doc_id_dict and embeddings_dict as they
\* were.
C4_DeleteAbsentRaises ==
    [][(call'.op = "delete" /\ call'.doc_id \notin DOMAIN doc_id_dict)
       => /\ call'.raised = "ValueError"
          /\ nodes_dict' = nodes_dict
          /\ doc_id_dict' = doc_id_dict
          /\ embeddings_dict' = embeddings_dict]_vars

\* A delete of an absent doc id has raised ValueError on a struct that holds
\* nodes under another doc id.
C4_Witness ==
    /\ call.op = "delete"
    /\ call.raised = "ValueError"
    /\ call.doc_id \notin DOMAIN doc_id_dict
    /\ nodes_dict # EmptyDict
    /\ doc_id_dict # EmptyDict

(***************************************************************************)
(* IndexGraph.  size is len(all_nodes); `x or self.size` takes self.size   *)
(* when x is None and also when x is 0, since 0 is falsy.                  *)
(***************************************************************************)
Size(an) == Cardinality(DOMAIN an)

IndexOr(x, size) == IF x = NoIndex \/ x = 0 THEN size ELSE x

get_index(n2i, node_id) == n2i[node_id]

\* IndexGraph.get_children(parent_node): position -> node id of the roots or
\* of the children of parent_node.
get_children(an, rn, n2c, parent) ==
    IF parent = None THEN rn ELSE [i \in n2c[parent] |-> an[i]]

(***************************************************************************)
(* IndexGraph.insert(node, index, children_nodes).  all_nodes and          *)
(* node_id_to_index are assigned first; get_index of a child that is not   *)
(* registered then raises KeyError before node_id_to_child_indices is      *)
(* assigned.                                                               *)
(***************************************************************************)
IndexGraph_insert(an, rn, n2i, n2c, node_id, index, children_nodes) ==
    LET idx  == IndexOr(index, Size(an))
        an1  == DictSet(an, idx, node_id)
        n2i1 == DictSet(n2i, node_id, idx)
    IN  IF \E i \in DOMAIN children_nodes : children_nodes[i] \notin DOMAIN n2i1
        THEN [all_nodes |-> an1, root_nodes |-> rn, node_id_to_index |-> n2i1,
              node_id_to_child_indices |-> n2c, pos |-> idx, raised |-> "KeyError"]
        ELSE [all_nodes |-> an1, root_nodes |-> rn, node_id_to_index |-> n2i1,
              node_id_to_child_indices |->
                  DictSet(n2c, node_id,
                          {get_index(n2i1, children_nodes[i]) : i \in DOMAIN children_nodes}),
              pos |-> idx, raised |-> ""]

(***************************************************************************)
(* IndexGraph.insert_under_parent(node, parent_node, new_index).           *)
(***************************************************************************)
\* insert_under_parent with the assignment to all_nodes indented into the
\* parent_node is None branch.
IndexGraph_insert_under_parent_RootOnly(an, rn, n2i, n2c, node_id, parent, new_index) ==
    LET idx == IndexOr(new_index, Size(an))
    IN  [all_nodes |-> IF parent = None THEN DictSet(an, idx, node_id) ELSE an,
         root_nodes |-> IF parent = None THEN DictSet(rn, idx, node_id) ELSE rn,
         node_id_to_index |-> DictSet(n2i, node_id, idx),
         node_id_to_child_indices |->
             IF parent = None THEN n2c
             ELSE DictSet(n2c, parent,
                          (IF parent \in DOMAIN n2c THEN n2c[parent] ELSE {}) \cup {idx}),
         pos |-> idx, raised |-> ""]

IndexGraph_insert_under_parent(an, rn, n2i, n2c, node_id, parent, new_index) ==
    LET idx  == IndexOr(new_index, Size(an))
        rn1  == IF parent = None THEN DictSet(rn, idx, node_id) ELSE rn
        n2c0 == IF parent # None /\ parent \notin DOMAIN n2c
                THEN DictSet(n2c, parent, {})
                ELSE n2c
        n2c1 == IF parent # None
                THEN DictSet(n2c0, parent, n2c0[parent] \cup {idx})
                ELSE n2c
    IN  [all_nodes |-> DictSet(an, idx, node_id),
         root_nodes |-> rn1,
         node_id_to_index |-> DictSet(n2i, node_id, idx),
         node_id_to_child_indices |-> n2c1,
         pos |-> idx, raised |-> ""]

(***************************************************************************)
(* The IndexGraph as a state machine: any sequence of insert and           *)
(* insert_under_parent, with positions up to MaxPos.                       *)
(***************************************************************************)
InitGraph ==
    /\ InitGraphFields
    /\ InitDictFields
    /\ InitTableFields
    /\ InitListFields
    /\ InitPPFields
    /\ call = [op |-> "init"]

GraphInsert ==
    \E node_id \in NodeIds, index \in Positions \cup {NoIndex},
       children_nodes \in ChildLists :
        LET r == IndexGraph_insert(all_nodes, root_nodes, node_id_to_index,
                                   node_id_to_child_indices, node_id, index, children_nodes)
        IN  /\ r.pos <= MaxPos
            /\ all_nodes' = r.all_nodes
            /\ root_nodes' = r.root_nodes
            /\ node_id_to_index' = r.node_id_to_index
            /\ node_id_to_child_indices' = r.node_id_to_child_indices
            /\ call' = [op |-> "insert", node_id |-> node_id, index |-> index,
                        children_nodes |-> children_nodes, pos |-> r.pos,
                        raised |-> r.raised]
            /\ UNCHANGED <<dictVars, tableVars, listVars, ppVars>>

GraphInsertUnderParent ==
    \E node_id \in NodeIds, parent \in NodeIds \cup {None}, new_index \in Positions \cup {NoIndex} :
        LET r == IndexGraph_insert_under_parent(all_nodes, root_nodes, node_id_to_index,
                                                node_id_to_child_indices, node_id, parent,
                                                new_index)
        IN  /\ r.pos <= MaxPos
            /\ all_nodes' = r.all_nodes
            /\ root_nodes' = r.root_nodes
            /\ node_id_to_index' = r.node_id_to_index
            /\ node_id_to_child_indices' = r.node_id_to_child_indices
            /\ call' = [op |-> "insert_under_parent", node_id |-> node_id,
                        parent |-> parent, index |-> new_index, pos |-> r.pos,
                        raised |-> r.raised]
            /\ UNCHANGED <<dictVars, tableVars, listVars, ppVars>>

NextGraph == GraphInsert \/ GraphInsertUnderParent

SpecGraph == InitGraph /\ [][NextGraph]_vars

\* Any sequence of insert_under_parent calls alone.
NextTree == GraphInsertUnderParent

SpecTree == InitGraph /\ [][NextTree]_vars

(***************************************************************************)
(* Claims about IndexGraph.                                                *)
(***************************************************************************)
IsInsertCall(c) == c.op \in {"insert", "insert_under_parent"}

\* C5: a call of insert or insert_under_parent that writes a position which
\* is already a key of all_nodes raises ValueError, and no call replaces the
\* node id stored at an occupied position of all_nodes.  Stated for calls
\* that insert a node id not yet in the graph.
C5_PositionsNeverReused ==
    [][(IsInsertCall(call') /\ call'.node_id \notin DOMAIN node_id_to_index)
       => /\ call'.pos \in DOMAIN all_nodes
                => (call'.raised = "ValueError" /\ all_nodes' = all_nodes)
          /\ \A p \in DOMAIN all_nodes :
                p \in DOMAIN all_nodes' /\ all_nodes'[p] = all_nodes[p]]_vars

\* C6: every integer in any set of node_id_to_child_indices is a key of
\* all_nodes.
C6_ChildIndicesAreKeys ==
    \A id \in DOMAIN node_id_to_child_indices :
        node_id_to_child_indices[id] \subseteq DOMAIN all_nodes

\* insert has returned with a child set of two positions while another node
\* id holds children given to it by insert_under_parent.
C6_Witness ==
    /\ call.op = "insert"
    /\ call.raised = ""
    /\ Cardinality(node_id_to_child_indices[call.node_id]) = 2
    /\ \E id \in DOMAIN node_id_to_child_indices :
          id # call.node_id /\ node_id_to_child_indices[id] # {}

Parents(p) == {id \in DOMAIN node_id_to_child_indices : p \in node_id_to_child_indices[id]}

\* C7: after any sequence of insert_under_parent calls, each position of
\* all_nodes is either a key of root_nodes and in no child-index set, or in
\* the child-index set of exactly one node id and no key of root_nodes.
C7_SingleParent ==
    \A p \in DOMAIN all_nodes :
        \/ p \in DOMAIN root_nodes /\ Parents(p) = {}
        \/ p \notin DOMAIN root_nodes /\ Cardinality(Parents(p)) = 1

\* The node ids one get_children step below node id x.
ChildIds(x) ==
    IF x \in DOMAIN node_id_to_child_indices
       /\ node_id_to_child_indices[x] \subseteq DOMAIN all_nodes
    THEN Range(get_children(all_nodes, root_nodes, node_id_to_child_indices, x))
    ELSE {}

RECURSIVE ReachFrom(_)
ReachFrom(S) ==
    LET T == S \cup UNION {ChildIds(x) : x \in S}
    IN  IF T = S THEN S ELSE ReachFrom(T)

\* C8: following child indices from any root never comes back to a node id
\* already on the path: no node id reachable from a root is its own
\* descendant.
C8_Acyclic ==
    \A x \in ReachFrom(Range(get_children(all_nodes, root_nodes,
                                          node_id_to_child_indices, None))) :
        x \notin ReachFrom(ChildIds(x))

\* C9: insert or insert_under_parent of a node whose id already occupies a
\* position of the graph fails with the duplicate-node error and leaves
\* all_nodes, root_nodes, node_id_to_index and node_id_to_child_indices
\* unchanged.
C9_DuplicateIdRejected ==
    [][(IsInsertCall(call') /\ call'.node_id \in Range(all_nodes))
       => /\ call'.raised = "DuplicateNodeError"
          /\ all_nodes' = all_nodes
          /\ root_nodes' = root_nodes
          /\ node_id_to_index' = node_id_to_index
          /\ node_id_to_child_indices' = node_id_to_child_indices]_vars

\* C10: a call of insert or insert_under_parent that returns registers the
\* node at the caller-supplied position, 0 included, and at position size
\* (the number of entries of all_nodes before the call) when none is
\* supplied.  Stated for calls that insert a node id not yet in the graph at
\* a position that is free.
C10_PositionAssigned ==
    [][LET want == IF call'.index = NoIndex THEN Size(all_nodes) ELSE call'.index
       IN  (/\ IsInsertCall(call') /\ call'.raised = ""
            /\ call'.node_id \notin DOMAIN node_id_to_index
            /\ want \notin DOMAIN all_nodes)
           => /\ want \in DOMAIN all_nodes'
              /\ all_nodes'[want] = call'.node_id
              /\ node_id_to_index'[call'.node_id] = want]_vars

\* C11: root_nodes is a sub-mapping of all_nodes (every root position is a
\* key of all_nodes holding the same node id), and root_nodes holds exactly
\* the positions of all_nodes that are in no child-index set.
C11_RootSet ==
    /\ \A p \in DOMAIN root_nodes :
          p \in DOMAIN all_nodes /\ all_nodes[p] = root_nodes[p]
    /\ DOMAIN root_nodes = {p \in DOMAIN all_nodes : Parents(p) = {}}

\* C12: node_id_to_index is the exact inverse of all_nodes:
\* all_nodes[i] = id if and only if node_id_to_index[id] = i.
C12_IndexIsInverse ==
    /\ \A i \in DOMAIN all_nodes :
          all_nodes[i] \in DOMAIN node_id_to_index
          /\ node_id_to_index[all_nodes[i]] = i
    /\ \A id \in DOMAIN node_id_to_index :
          node_id_to_index[id] \in DOMAIN all_nodes
          /\ all_nodes[node_id_to_index[id]] = id

(***************************************************************************)
(* KeywordTable.add_node(keywords, node) and KG.add_node(keywords, node):  *)
(* the same loop over the keyword list.                                    *)
(***************************************************************************)
\* add_node assigning the set of a keyword instead of adding to it.
RECURSIVE KeywordTable_add_node_Assign(_, _, _)
KeywordTable_add_node_Assign(tb, keywords, node_id) ==
    IF keywords = <<>>
    THEN tb
    ELSE KeywordTable_add_node_Assign(DictSet(tb, Head(keywords), {node_id}),
                                      Tail(keywords), node_id)

RECURSIVE KeywordTable_add_node(_, _, _)
KeywordTable_add_node(tb, keywords, node_id) ==
    IF keywords = <<>>
    THEN tb
    ELSE LET keyword == Head(keywords)
             tb0 == IF keyword \notin DOMAIN tb THEN DictSet(tb, keyword, {}) ELSE tb
             tb1 == DictSet(tb0, keyword, tb0[keyword] \cup {node_id})
         IN  KeywordTable_add_node(tb1, Tail(keywords), node_id)

InitTable ==
    /\ InitTableFields
    /\ InitDictFields
    /\ InitGraphFields
    /\ InitListFields
    /\ InitPPFields
    /\ call = [op |-> "init"]

KeywordTableAddNode ==
    \E keywords \in KeywordLists, node_id \in NodeIds :
        /\ table' = KeywordTable_add_node(table, keywords, node_id)
        /\ tagged' = tagged \cup {<<keywords[i], node_id>> : i \in DOMAIN keywords}
        /\ call' = [op |-> "KeywordTable.add_node", keywords |-> keywords,
                    node_id |-> node_id, raised |-> ""]
        /\ UNCHANGED <<rel_map, dictVars, graphVars, listVars, ppVars>>

NextKeywordTable == KeywordTableAddNode

SpecKeywordTable == InitTable /\ [][NextKeywordTable]_vars

\* C13: for every string k, table[k] is exactly the set of ids of the nodes
\* that were added with k among their keywords, keywords taken verbatim, and
\* a string never given as a keyword is no key of table.
C13_KeywordUnion ==
    /\ DOMAIN table = {p[1] : p \in tagged}
    /\ \A k \in DOMAIN table : table[k] = {p[2] : p \in {q \in tagged : q[1] = k}}

\* Two nodes share keyword m, only one of them has k, and K was given to the
\* other node only.
C13_Witness ==
    /\ call.op = "KeywordTable.add_node"
    /\ {"k", "K", "m"} \subseteq DOMAIN table
    /\ table["m"] = {"a", "b"}
    /\ table["k"] = {"a"}
    /\ table["K"] = {"b"}

(***************************************************************************)
(* KG.  upsert_triplet adds the node under subject and object and appends  *)
(* (obj, relationship) to rel_map[subj].  get_node_ids returns a list; the *)
(* order in which Python iterates a set is not fixed by the language, so   *)
(* a call takes an order of the node ids as an extra input.  A returned    *)
(* value v is the one-element sequence <<v>>, no returned value is <<>>.   *)
(***************************************************************************)
KG_add_node(tb, keywords, node_id) == KeywordTable_add_node(tb, keywords, node_id)

KG_upsert_triplet(tb, rm, subj, relationship, obj, node_id) ==
    LET tb1 == KG_add_node(tb, <<subj, obj>>, node_id)
        rm0 == IF subj \notin DOMAIN rm THEN DictSet(rm, subj, <<>>) ELSE rm
    IN  [table |-> tb1,
         rel_map |-> DictSet(rm0, subj, Append(rm0[subj], <<obj, relationship>>))]

SetToSeq(S, order) == LET In(x) == x \in S IN SelectSeq(order, In)

RECURSIVE Flatten(_)
Flatten(ss) == IF ss = <<>> THEN <<>> ELSE Head(ss) \o Flatten(Tail(ss))

\* get_node_ids with the depth check after the lookup of the keyword.
KG_get_node_ids_LateCheck(tb, rm, keyword, depth, order) ==
    IF keyword \notin DOMAIN tb
    THEN [ret |-> << <<>> >>, raised |-> ""]
    ELSE IF depth > 1
    THEN [ret |-> <<>>, raised |-> "ValueError"]
    ELSE LET keywords == <<keyword>> \o
                 (IF keyword \in DOMAIN rm
                  THEN [i \in DOMAIN rm[keyword] |-> rm[keyword][i][1]]
                  ELSE <<>>)
         IN  [ret |-> << Flatten([i \in DOMAIN keywords |->
                                   SetToSeq(IF keywords[i] \in DOMAIN tb
                                            THEN tb[keywords[i]] ELSE {}, order)]) >>,
              raised |-> ""]

KG_get_node_ids(tb, rm, keyword, depth, order) ==
    IF depth > 1
    THEN [ret |-> <<>>, raised |-> "ValueError"]
    ELSE IF keyword \notin DOMAIN tb
    THEN [ret |-> << <<>> >>, raised |-> ""]
    ELSE LET keywords == <<keyword>> \o
                 (IF keyword \in DOMAIN rm
                  THEN [i \in DOMAIN rm[keyword] |-> rm[keyword][i][1]]
                  ELSE <<>>)
         IN  [ret |-> << Flatten([i \in DOMAIN keywords |->
                                   SetToSeq(IF keywords[i] \in DOMAIN tb
                                            THEN tb[keywords[i]] ELSE {}, order)]) >>,
              raised |-> ""]

KGUpsertTriplet ==
    \E subj \in KGWords, relationship \in Relations, obj \in KGWords, node_id \in NodeIds :
        LET r == KG_upsert_triplet(table, rel_map, subj, relationship, obj, node_id)
        IN  /\ \A k \in DOMAIN r.rel_map : Len(r.rel_map[k]) <= MaxRels
            /\ table' = r.table
            /\ rel_map' = r.rel_map
            /\ tagged' = tagged \cup {<<subj, node_id>>, <<obj, node_id>>}
            /\ call' = [op |-> "upsert_triplet", triplet |-> <<subj, relationship, obj>>,
                        node_id |-> node_id, raised |-> ""]
            /\ UNCHANGED <<dictVars, graphVars, listVars, ppVars>>

KGAddNode ==
    \E keywords \in {<<>>, <<"x">>, <<"y", "w">>}, node_id \in NodeIds :
        /\ table' = KG_add_node(table, keywords, node_id)
        /\ tagged' = tagged \cup {<<keywords[i], node_id>> : i \in DOMAIN keywords}
        /\ call' = [op |-> "KG.add_node", keywords |-> keywords, node_id |-> node_id,
                    raised |-> ""]
        /\ UNCHANGED <<rel_map, dictVars, graphVars, listVars, ppVars>>

KGGetNodeIds ==
    \E keyword \in KGWords \cup {"z"}, depth \in Depths, order \in SetOrders :
        LET r == KG_get_node_ids(table, rel_map, keyword, depth, order)
        IN  /\ call' = [op |-> "get_node_ids", keyword |-> keyword, depth |-> depth,
                        ret |-> r.ret, raised |-> r.raised]
            /\ UNCHANGED <<tableVars, dictVars, graphVars, listVars, ppVars>>

NextKG == KGUpsertTriplet \/ KGAddNode \/ KGGetNodeIds

SpecKG == InitTable /\ [][NextKG]_vars

\* C14: get_node_ids(keyword, depth) with depth > 1 raises ValueError for
\* every keyword, in the table or not, returns nothing, and leaves table and
\* rel_map unchanged.
C14_DepthFailsFast ==
    [][(call'.op = "get_node_ids" /\ call'.depth > 1)
       => /\ call'.raised = "ValueError"
          /\ call'.ret = <<>>
          /\ table' = table
          /\ rel_map' = rel_map]_vars

\* get_node_ids with depth 2 has raised for a keyword that is in the table
\* and has relations, so that a depth-1 answer existed.
C14_Witness ==
    /\ call.op = "get_node_ids"
    /\ call.depth = 2
    /\ call.raised = "ValueError"
    /\ call.keyword \in DOMAIN table
    /\ call.keyword \in DOMAIN rel_map

(***************************************************************************)
(* IndexList.add_node(node).                                               *)
(***************************************************************************)
\* add_node that skips a node id already in the list.
IndexList_add_node_Dedup(ns, node_id) ==
    IF node_id \in Range(ns) THEN ns ELSE Append(ns, node_id)

IndexList_add_node(ns, node_id) == Append(ns, node_id)

InitList ==
    /\ InitListFields
    /\ InitDictFields
    /\ InitGraphFields
    /\ InitTableFields
    /\ InitPPFields
    /\ call = [op |-> "init"]

ListAddNode ==
    \E node_id \in ListNodeIds :
        /\ Len(nodes) < MaxNodes
        /\ nodes' = IndexList_add_node(nodes, node_id)
        /\ call' = [op |-> "IndexList.add_node", node_id |-> node_id, raised |-> ""]
        /\ UNCHANGED <<docstore, dictVars, graphVars, tableVars, ppVars>>

NextList == ListAddNode

SpecList == InitList /\ [][NextList]_vars

\* C15: each IndexList.add_node appends the node's id at the end of nodes and
\* leaves the earlier entries where they were, so that nodes is the list of
\* the ids in call order.
C15_ListAppends ==
    [][call'.op = "IndexList.add_node"
       => /\ Len(nodes') = Len(nodes) + 1
          /\ nodes'[Len(nodes')] = call'.node_id
          /\ \A i \in 1 .. Len(nodes) : nodes'[i] = nodes[i]]_vars

\* Three add_node calls, the third with the node of the first.
C15_Witness ==
    /\ call.op = "IndexList.add_node"
    /\ nodes = <<"b", "a", "b">>

(***************************************************************************)
(* Claims about repeated and failing calls.                                *)
(***************************************************************************)

\* C16: add_node with a node that is already registered (IndexDict: its
\* vector id maps to the node's id and is listed under its ref_doc_id;
\* IndexList: its id is in nodes) raises nothing and leaves nodes_dict and
\* doc_id_dict, resp. nodes, exactly as they were.
C16_AddNodeIdempotent ==
    [][/\ (/\ call'.op = "add_node"
           /\ call'.ret \in DOMAIN nodes_dict
           /\ nodes_dict[call'.ret] = call'.node_id
           /\ \/ call'.ref_doc_id = None
              \/ /\ call'.ref_doc_id \in DOMAIN doc_id_dict
                 /\ call'.ret \in Range(doc_id_dict[call'.ref_doc_id]))
          => /\ call'.raised = ""
             /\ nodes_dict' = nodes_dict
             /\ doc_id_dict' = doc_id_dict
       /\ (call'.op = "IndexList.add_node" /\ call'.node_id \in Range(nodes))
          => /\ call'.raised = ""
             /\ nodes' = nodes]_vars

C19_AllOrNothing ==
    [][(call'.op # "init" /\ call'.raised # "")
       => /\ all_nodes' = all_nodes
          /\ root_nodes' = root_nodes
          /\ node_id_to_index' = node_id_to_index
          /\ node_id_to_child_indices' = node_id_to_child_indices
          /\ nodes_dict' = nodes_dict
          /\ doc_id_dict' = doc_id_dict
          /\ embeddings_dict' = embeddings_dict]_vars

(***************************************************************************)
(* KeywordNodePostprocessor.postprocess_nodes(nodes, extra_info).  A text  *)
(* is a sequence of characters; "x" and "y" are word characters (\w) and   *)
(* " " is not.  re.findall(r"\w+", text) scans the text from the left and  *)
(* returns the maximal runs of word characters.                            *)
(***************************************************************************)
IsWordChar(c) == c # " "

RECURSIVE findall_scan(_, _, _)
findall_scan(rest, cur, acc) ==
    IF rest = <<>>
    THEN IF cur # <<>> THEN Append(acc, cur) ELSE acc
    ELSE IF IsWordChar(Head(rest))
         THEN findall_scan(Tail(rest), Append(cur, Head(rest)), acc)
         ELSE findall_scan(Tail(rest), <<>>, IF cur # <<>> THEN Append(acc, cur) ELSE acc)

findall(text) == findall_scan(text, <<>>, <<>>)

\* `w in text` on the string: w occurs somewhere in the text.
StrContains(text, w) ==
    \E i \in 1 .. Len(text) + 1 :
        i + Len(w) - 1 <= Len(text) /\ SubSeq(text, i, i + Len(w) - 1) = w

RECURSIVE required_loop(_, _, _)
required_loop(kws, words, should_use_node) ==
    IF kws = <<>>
    THEN should_use_node
    ELSE required_loop(Tail(kws), words,
                       IF Head(kws) \notin Range(words) THEN FALSE ELSE should_use_node)

RECURSIVE exclude_loop(_, _, _)
exclude_loop(kws, words, should_use_node) ==
    IF kws = <<>>
    THEN should_use_node
    ELSE exclude_loop(Tail(kws), words,
                      IF Head(kws) \in Range(words) THEN FALSE ELSE should_use_node)

\* postprocess_nodes that tests the keywords against the text itself instead
\* of its list of words.
KeywordNodePostprocessor_postprocess_nodes_Substring(required, exclude, ns) ==
    LET Use(node) ==
            /\ \A i \in DOMAIN required : StrContains(node.text, required[i])
            /\ \A i \in DOMAIN exclude : ~StrContains(node.text, exclude[i])
    IN  SelectSeq(ns, Use)

KeywordNodePostprocessor_postprocess_nodes(required, exclude, ns) ==
    LET Use(node) ==
            LET words == findall(node.text)
            IN  exclude_loop(exclude, words, required_loop(required, words, TRUE))
    IN  SelectSeq(ns, Use)

InitKeywordPP ==
    /\ required_keywords \in RequiredLists
    /\ exclude_keywords \in ExcludeLists
    /\ similarity_cutoff = <<>>
    /\ InitDictFields
    /\ InitGraphFields
    /\ InitTableFields
    /\ InitListFields
    /\ call = [op |-> "init"]

KeywordPostprocessNodes ==
    \E ns \in PPNodeLists :
        /\ call' = [op |-> "KeywordNodePostprocessor.postprocess_nodes", nodes |-> ns,
                    ret |-> KeywordNodePostprocessor_postprocess_nodes(
                                required_keywords, exclude_keywords, ns),
                    raised |-> ""]
        /\ UNCHANGED <<ppVars, dictVars, graphVars, tableVars, listVars>>

NextKeywordPP == KeywordPostprocessNodes

SpecKeywordPP == InitKeywordPP /\ [][NextKeywordPP]_vars

\* w is one of the \w+ tokens of text: a run of word characters of the text
\* that is equal to w and has no word character next to it on either side.
IsToken(text, w) ==
    \E i \in 1 .. Len(text), j \in 1 .. Len(text) :
        /\ i <= j
        /\ SubSeq(text, i, j) = w
        /\ \A k \in i .. j : IsWordChar(text[k])
        /\ i = 1 \/ ~IsWordChar(text[i - 1])
        /\ j = Len(text) \/ ~IsWordChar(text[j + 1])

KeptByKeywords(node) ==
    /\ \A i \in DOMAIN required_keywords : IsToken(node.text, required_keywords[i])
    /\ \A i \in DOMAIN exclude_keywords : ~IsToken(node.text, exclude_keywords[i])

\* C20: postprocess_nodes keeps a node if and only if every required keyword
\* equals one of the \w+ tokens of the node's text and no excluded keyword
\* equals one of them; a keyword that is only a proper substring of a token
\* counts as absent; with both keyword lists empty every node is kept.
C20_KeywordFilter ==
    call.op = "KeywordNodePostprocessor.postprocess_nodes"
        => /\ call.ret = SelectSeq(call.nodes, KeptByKeywords)
           /\ (required_keywords = <<>> /\ exclude_keywords = <<>>) => call.ret = call.nodes

\* Required keyword x: the node with text "xy" is dropped, x being a proper
\* substring of its one token, and the node with text "x y" is kept.
C20_Witness ==
    /\ call.op = "KeywordNodePostprocessor.postprocess_nodes"
    /\ required_keywords = << <<"x">> >>
    /\ exclude_keywords = <<>>
    /\ Len(call.nodes) = 2
    /\ call.nodes[1].text = <<"x", "y">>
    /\ call.nodes[2].text = <<"x", " ", "y">>
    /\ call.ret = <<call.nodes[2]>>

(***************************************************************************)
(* The nodes the similarity and adjacency postprocessors work on.  A node  *)
(* is a record of its doc id, its text and its relationships, a dict from  *)
(* PREVIOUS and NEXT to the doc id of the neighbour.  ChainDocstore(ids,   *)
(* texts) is the document store of the nodes ids[1], ids[2], ... linked    *)
(* PREVIOUS/NEXT in that order.                                            *)
(***************************************************************************)
ChainRelationships(ids, i) ==
    [r \in (IF i > 1 THEN {"PREVIOUS"} ELSE {}) \cup (IF i < Len(ids) THEN {"NEXT"} ELSE {})
        |-> IF r = "PREVIOUS" THEN ids[i - 1] ELSE ids[i + 1]]

ChainNode(ids, texts, i) ==
    [doc_id |-> ids[i], text |-> texts[i], relationships |-> ChainRelationships(ids, i)]

ChainDocstore(ids, texts) ==
    [d \in Range(ids) |-> ChainNode(ids, texts, CHOOSE i \in DOMAIN ids : ids[i] = d)]

StoreIds == <<"a", "b", "c">>

StoreTexts == << <<"x">>, <<"y">>, <<"x", " ", "y">> >>

Store == ChainDocstore(StoreIds, StoreTexts)

StoreNodes == {Store[d] : d \in DOMAIN Store}

CandidateLists ==
    {<<>>} \cup {<<n>> : n \in StoreNodes} \cup {<<n, m>> : n, m \in StoreNodes}

Scores == {0, 1, 2}

Cutoffs == {<<>>, <<1>>, <<2>>}

\* The lookups of a SimilarityTracker: a score for some of the nodes.
Trackers == UNION {[D -> Scores] : D \in SUBSET DOMAIN Store}

ExtraInfos == {EmptyDict} \cup {[k \in {"similarity_tracker"} |-> t] : t \in Trackers}

(***************************************************************************)
(* SimilarityTracker.find(node): the score recorded for the node, <<s>>,   *)
(* or None, <<>>.                                                          *)
(***************************************************************************)
SimilarityTracker_find(lookup, node) ==
    IF node.doc_id \in DOMAIN lookup THEN <<lookup[node.doc_id]>> ELSE <<>>

(***************************************************************************)
(* SimilarityPostprocessor.postprocess_nodes(nodes, extra_info).  The      *)
(* tracker is looked up inside the loop over the nodes, once per node.     *)
(* For a node without a score, find returns None, should_use_node is set   *)
(* to False and the next statement compares None < similarity_cutoff,      *)
(* which raises TypeError.  The result is <<list>> or, when the call       *)
(* raises, <<>>.                                                           *)
(***************************************************************************)
RECURSIVE similarity_loop(_, _, _, _)
similarity_loop(cutoff, rest, extra_info, new_nodes) ==
    IF rest = <<>>
    THEN [ret |-> <<new_nodes>>, raised |-> ""]
    ELSE IF "similarity_tracker" \notin DOMAIN extra_info
    THEN [ret |-> <<>>, raised |-> "ValueError"]
    ELSE LET node == Head(rest)
             sim_cutoff_exists == cutoff # <<>>
             similarity == SimilarityTracker_find(extra_info["similarity_tracker"], node)
         IN  IF ~sim_cutoff_exists
             THEN similarity_loop(cutoff, Tail(rest), extra_info, Append(new_nodes, node))
             ELSE IF similarity = <<>>
             THEN [ret |-> <<>>, raised |-> "TypeError"]
             ELSE similarity_loop(cutoff, Tail(rest), extra_info,
                                  IF similarity[1] < cutoff[1]
                                  THEN new_nodes ELSE Append(new_nodes, node))

\* postprocess_nodes that puts every kept node in front of the nodes kept
\* before it.
RECURSIVE similarity_loop_Prepend(_, _, _, _)
similarity_loop_Prepend(cutoff, rest, extra_info, new_nodes) ==
    IF rest = <<>>
    THEN [ret |-> <<new_nodes>>, raised |-> ""]
    ELSE IF "similarity_tracker" \notin DOMAIN extra_info
    THEN [ret |-> <<>>, raised |-> "ValueError"]
    ELSE LET node == Head(rest)
             sim_cutoff_exists == cutoff # <<>>
             similarity == SimilarityTracker_find(extra_info["similarity_tracker"], node)
         IN  IF ~sim_cutoff_exists
             THEN similarity_loop_Prepend(cutoff, Tail(rest), extra_info, <<node>> \o new_nodes)
             ELSE IF similarity = <<>>
             THEN [ret |-> <<>>, raised |-> "TypeError"]
             ELSE similarity_loop_Prepend(cutoff, Tail(rest), extra_info,
                                          IF similarity[1] < cutoff[1]
                                          THEN new_nodes ELSE <<node>> \o new_nodes)

SimilarityPostprocessor_postprocess_nodes_Prepend(cutoff, ns, extra_info) ==
    similarity_loop_Prepend(cutoff, ns, extra_info, <<>>)

SimilarityPostprocessor_postprocess_nodes(cutoff, ns, extra_info) ==
    similarity_loop(cutoff, ns, extra_info, <<>>)

InitSimilarityPP ==
    /\ similarity_cutoff \in Cutoffs
    /\ required_keywords = <<>>
    /\ exclude_keywords = <<>>
    /\ InitDictFields
    /\ InitGraphFields
    /\ InitTableFields
    /\ InitListFields
    /\ call = [op |-> "init"]

SimilarityPostprocessNodes ==
    \E ns \in CandidateLists, extra_info \in ExtraInfos :
        LET r == SimilarityPostprocessor_postprocess_nodes(similarity_cutoff, ns, extra_info)
        IN  /\ call' = [op |-> "SimilarityPostprocessor.postprocess_nodes", nodes |-> ns,
                        extra_info |-> extra_info, ret |-> r.ret, raised |-> r.raised]
            /\ UNCHANGED <<ppVars, dictVars, graphVars, tableVars, listVars>>

NextSimilarityPP == SimilarityPostprocessNodes

SpecSimilarityPP == InitSimilarityPP /\ [][NextSimilarityPP]_vars

\* C21: postprocess_nodes raises ValueError whenever extra_info holds no
\* similarity tracker, for every list of nodes, the empty list included,
\* and returns no list then.
C21_MissingTrackerRaises ==
    (call.op = "SimilarityPostprocessor.postprocess_nodes"
     /\ "similarity_tracker" \notin DOMAIN call.extra_info)
        => call.raised = "ValueError" /\ call.ret = <<>>

\* The node is kept by the cutoff: no cutoff is configured, or the tracker
\* holds a score for the node that is at least the cutoff.
KeptBySimilarity(node) ==
    \/ similarity_cutoff = <<>>
    \/ /\ node.doc_id \in DOMAIN call.extra_info["similarity_tracker"]
       /\ call.extra_info["similarity_tracker"][node.doc_id] >= similarity_cutoff[1]

\* C22: with a similarity tracker present, postprocess_nodes returns, and
\* it keeps a node if and only if no cutoff is configured or the tracker
\* holds a score for it that is at least the cutoff; a node without a score
\* is dropped without raising.
C22_CutoffFilter ==
    (call.op = "SimilarityPostprocessor.postprocess_nodes"
     /\ "similarity_tracker" \in DOMAIN call.extra_info)
        => /\ call.raised = ""
           /\ call.ret = <<SelectSeq(call.nodes, KeptBySimilarity)>>

(***************************************************************************)
(* PrevNextNodePostProcessor(docstore, num_nodes, mode).postprocess_nodes. *)
(* From every input node the postprocessor follows the NEXT links (modes   *)
(* next and both) and the PREVIOUS links (modes previous and both) through *)
(* the document store for at most num_nodes steps, stopping where a node   *)
(* has no such link; the nodes found are kept once each, by doc id, and    *)
(* returned in the order of their position in the chain.                   *)
(***************************************************************************)
MaxChain == 4

MaxNumNodes == 4

Modes == {"next", "previous", "both"}

\* The chain of n nodes with doc ids 1 .. n.
NumberedChain(n) == ChainDocstore([i \in 1 .. n |-> i], [i \in 1 .. n |-> <<>>])

ChainInputLists(ds) ==
    LET ns == {ds[d] : d \in DOMAIN ds}
    IN  {<<>>} \cup {<<x>> : x \in ns} \cup {<<x, y>> : x, y \in ns}

\* The nodes reached from node in at most num_nodes steps along the
\* relationship rel.
RECURSIVE get_linked_nodes(_, _, _, _)
get_linked_nodes(ds, node, rel, num_nodes) ==
    IF num_nodes = 0 \/ rel \notin DOMAIN node.relationships
    THEN {}
    ELSE LET neighbour == ds[node.relationships[rel]]
         IN  {neighbour} \cup get_linked_nodes(ds, neighbour, rel, num_nodes - 1)

\* The position of the node in its chain: one more than the number of
\* PREVIOUS links before it.
RECURSIVE ChainPosition(_, _)
ChainPosition(ds, node) ==
    IF "PREVIOUS" \notin DOMAIN node.relationships
    THEN 1
    ELSE 1 + ChainPosition(ds, ds[node.relationships["PREVIOUS"]])

RECURSIVE SortByPosition(_, _)
SortByPosition(ds, S) ==
    IF S = {}
    THEN <<>>
    ELSE LET first == CHOOSE x \in S : \A y \in S : ChainPosition(ds, x) <= ChainPosition(ds, y)
         IN  <<first>> \o SortByPosition(ds, S \ {first})

ExpandNode(ds, num_nodes, mode, node) ==
    {node}
    \cup (IF mode \in {"next", "both"}
          THEN get_linked_nodes(ds, node, "NEXT", num_nodes) ELSE {})
    \cup (IF mode \in {"previous", "both"}
          THEN get_linked_nodes(ds, node, "PREVIOUS", num_nodes) ELSE {})

\* postprocess_nodes that returns the windows one after the other, in the
\* order of the input nodes, without merging them.
PrevNextNodePostProcessor_postprocess_nodes_Concat(ds, num_nodes, mode, ns) ==
    [ret |-> << Flatten([i \in DOMAIN ns |->
                            SortByPosition(ds, ExpandNode(ds, num_nodes, mode, ns[i]))]) >>,
     raised |-> ""]

PrevNextNodePostProcessor_postprocess_nodes(ds, num_nodes, mode, ns) ==
    [ret |-> << SortByPosition(ds, UNION {ExpandNode(ds, num_nodes, mode, ns[i]) :
                                             i \in DOMAIN ns}) >>,
     raised |-> ""]

\* The constructor: it refuses a mode other than next, previous and both.
InitPrevNext ==
    /\ InitPPFields
    /\ InitDictFields
    /\ InitGraphFields
    /\ InitTableFields
    /\ InitListFields
    /\ \E n \in 1 .. MaxChain, num_nodes \in 0 .. MaxNumNodes, mode \in Modes \cup {"asdfasdf"} :
           call = [op |-> "PrevNextNodePostProcessor", chain |-> n, num_nodes |-> num_nodes,
                   mode |-> mode, raised |-> IF mode \in Modes THEN "" ELSE "ValueError"]

PrevNextPostprocessNodes ==
    /\ call.raised = ""
    /\ \E ns \in ChainInputLists(NumberedChain(call.chain)) :
           LET r == PrevNextNodePostProcessor_postprocess_nodes(
                        NumberedChain(call.chain), call.num_nodes, call.mode, ns)
           IN  /\ call' = [op |-> "PrevNextNodePostProcessor.postprocess_nodes",
                           chain |-> call.chain, num_nodes |-> call.num_nodes,
                           mode |-> call.mode, nodes |-> ns, ret |-> r.ret,
                           raised |-> r.raised]
               /\ UNCHANGED <<ppVars, dictVars, graphVars, tableVars, listVars>>

NextPrevNext == PrevNextPostprocessNodes

SpecPrevNext == InitPrevNext /\ [][NextPrevNext]_vars

Min(x, y) == IF x <= y THEN x ELSE y

Max(x, y) == IF x >= y THEN x ELSE y

\* The window of the node at position i of a chain of n nodes.
Window(i, k, n, mode) ==
    {i}
    \cup (IF mode \in {"next", "both"} THEN (i + 1) .. Min(i + k, n) ELSE {})
    \cup (IF mode \in {"previous", "both"} THEN Max(i - k, 1) .. (i - 1) ELSE {})

\* C24: over a chain of n nodes, postprocess_nodes with num_nodes = k returns
\* without raising exactly the nodes of the union of the input nodes' windows
\* (position i, with i+1 .. min(i+k, n) in mode next, max(i-k, 1) .. i-1 in
\* mode previous, both in mode both), each node once, in increasing chain
\* position.
C24_AdjacencyWindows ==
    call.op = "PrevNextNodePostProcessor.postprocess_nodes"
        => /\ call.raised = ""
           /\ call.ret # <<>>
           /\ LET out == call.ret[1]
              IN  /\ \A j \in 1 .. Len(out) - 1 : out[j].doc_id < out[j + 1].doc_id
                  /\ {out[j].doc_id : j \in DOMAIN out}
                         = UNION {Window(call.nodes[i].doc_id, call.num_nodes,
                                         call.chain, call.mode) : i \in DOMAIN call.nodes}
                  /\ \A j \in DOMAIN out : out[j] = NumberedChain(call.chain)[out[j].doc_id]

\* Nodes 2 and 3 of a chain of 4 with num_nodes = 4 in mode both: the two
\* windows overlap and both are clamped at the two ends of the chain.
C24_Witness ==
    /\ call.op = "PrevNextNodePostProcessor.postprocess_nodes"
    /\ call.chain = 4
    /\ call.num_nodes = 4
    /\ call.mode = "both"
    /\ Len(call.nodes) = 2
    /\ call.nodes[1].doc_id = 3
    /\ call.nodes[2].doc_id = 2
    /\ Len(call.ret[1]) = 4

(***************************************************************************)
(* A chain of postprocessors.  The caller passes the candidate list        *)
(* through the stages in the order it chooses: a stage runs on a fresh     *)
(* list of retrieved candidates or on the list the stage before it has     *)
(* returned.  call.retrieved is the candidate list the chain started from  *)
(* and call.expanded tells whether an adjacency stage has run in it.       *)
(***************************************************************************)
ChainOps == {"chain.keyword", "chain.similarity", "chain.prev_next"}

ChainTrackers ==
    {[d \in {"a", "b", "c"} |-> IF d = "a" THEN 0 ELSE IF d = "b" THEN 1 ELSE 2],
     [d \in {"a", "b"} |-> 2]}

ChainExtraInfos ==
    {EmptyDict} \cup {[k \in {"similarity_tracker"} |-> t] : t \in ChainTrackers}

StageInputs ==
    {[nodes |-> ns, retrieved |-> ns, expanded |-> FALSE] : ns \in CandidateLists}
    \cup (IF call.op \in ChainOps /\ call.raised = ""
          THEN {[nodes |-> call.ret[1], retrieved |-> call.retrieved,
                 expanded |-> call.expanded]}
          ELSE {})

InitChain ==
    /\ required_keywords \in {<<>>, << <<"x">> >>}
    /\ exclude_keywords \in {<<>>, << <<"y">> >>}
    /\ similarity_cutoff \in {<<>>, <<1>>}
    /\ InitDictFields
    /\ InitGraphFields
    /\ InitTableFields
    /\ InitListFields
    /\ call = [op |-> "init"]

ChainKeywordStage ==
    \E in \in StageInputs :
        /\ call' = [op |-> "chain.keyword", retrieved |-> in.retrieved,
                    expanded |-> in.expanded, nodes |-> in.nodes,
                    ret |-> << KeywordNodePostprocessor_postprocess_nodes(
                                   required_keywords, exclude_keywords, in.nodes) >>,
                    raised |-> ""]
        /\ UNCHANGED <<ppVars, dictVars, graphVars, tableVars, listVars>>

ChainSimilarityStage ==
    \E in \in StageInputs, extra_info \in ChainExtraInfos :
        LET r == SimilarityPostprocessor_postprocess_nodes(
                     similarity_cutoff, in.nodes, extra_info)
        IN  /\ call' = [op |-> "chain.similarity", retrieved |-> in.retrieved,
                        expanded |-> in.expanded, nodes |-> in.nodes,
                        extra_info |-> extra_info, ret |-> r.ret, raised |-> r.raised]
            /\ UNCHANGED <<ppVars, dictVars, graphVars, tableVars, listVars>>

ChainPrevNextStage ==
    \E in \in StageInputs, num_nodes \in {1, 2}, mode \in Modes :
        LET r == PrevNextNodePostProcessor_postprocess_nodes(Store, num_nodes, mode, in.nodes)
        IN  /\ call' = [op |-> "chain.prev_next", retrieved |-> in.retrieved,
                        expanded |-> TRUE, nodes |-> in.nodes, num_nodes |-> num_nodes,
                        mode |-> mode, ret |-> r.ret, raised |-> r.raised]
            /\ UNCHANGED <<ppVars, dictVars, graphVars, tableVars, listVars>>

NextChain == ChainKeywordStage \/ ChainSimilarityStage \/ ChainPrevNextStage

SpecChain == InitChain /\ [][NextChain]_vars

\* s is t with some of its elements left out, the others in the order of t.
RECURSIVE IsSubsequence(_, _)
IsSubsequence(s, t) ==
    IF s = <<>> THEN TRUE
    ELSE IF t = <<>> THEN FALSE
    ELSE IF Head(s) = Head(t) THEN IsSubsequence(Tail(s), Tail(t))
    ELSE IsSubsequence(s, Tail(t))

\* C23 as stated: every stage of a chain returns only nodes of its own input
\* list, and the output of the chain holds only nodes of the retrieved
\* candidate list.
C23_NoStageAddsNodes ==
    (call.op \in ChainOps /\ call.raised = "")
        => /\ Range(call.ret[1]) \subseteq Range(call.nodes)
           /\ Range(call.ret[1]) \subseteq Range(call.retrieved)

\* C23 as amended: a keyword or similarity stage returns an order-preserving
\* subsequence of its input list, and the output of a chain in which only
\* keyword and similarity stages have run, in any order, is an
\* order-preserving subsequence of the retrieved candidate list.
C23_FiltersNeverInvent ==
    (call.op \in ChainOps /\ call.raised = "")
        => /\ call.op \in {"chain.keyword", "chain.similarity"}
                  => IsSubsequence(call.ret[1], call.nodes)
           /\ ~call.expanded => IsSubsequence(call.ret[1], call.retrieved)

\* A similarity stage has run on the output of a keyword stage: two nodes
\* were retrieved, the keyword stage before has dropped one of them and the
\* similarity stage has kept the other.
C23_Witness ==
    /\ call.op = "chain.similarity"
    /\ call.raised = ""
    /\ ~call.expanded
    /\ Len(call.retrieved) = 2
    /\ Len(call.nodes) = 1
    /\ call.ret = <<call.nodes>>
    /\ similarity_cutoff # <<>>

(***************************************************************************)
(* The reads of the index structs that the query traversal uses.           *)
(* KeywordTable.node_ids and KG.node_ids unite the values of table with    *)
(* set.union, one argument per value:                                      *)
(* with an empty table set.union is called without an argument and raises  *)
(* TypeError.  A result is <<value>>, or <<>> when the read raises.        *)
(***************************************************************************)
KeywordTable_node_ids(tb) ==
    IF DOMAIN tb = {}
    THEN [ret |-> <<>>, raised |-> "TypeError"]
    ELSE [ret |-> << UNION {tb[k] : k \in DOMAIN tb} >>, raised |-> ""]

KeywordTable_keywords(tb) == [ret |-> << DOMAIN tb >>, raised |-> ""]

KG_node_ids(tb) ==
    IF DOMAIN tb = {}
    THEN [ret |-> <<>>, raised |-> "TypeError"]
    ELSE [ret |-> << UNION {tb[k] : k \in DOMAIN tb} >>, raised |-> ""]

\* get_children(parent_node): a parent that is no key of
\* node_id_to_child_indices, or a child position that is no key of
\* all_nodes, raises KeyError.
IndexGraph_get_children(an, rn, n2c, parent) ==
    IF parent = None
    THEN [ret |-> << get_children(an, rn, n2c, parent) >>, raised |-> ""]
    ELSE IF parent \notin DOMAIN n2c \/ \E i \in n2c[parent] : i \notin DOMAIN an
    THEN [ret |-> <<>>, raised |-> "KeyError"]
    ELSE [ret |-> << get_children(an, rn, n2c, parent) >>, raised |-> ""]

IndexGraph_get_children_indices(rn, n2c, parent) ==
    IF parent = None
    THEN [ret |-> << DOMAIN rn >>, raised |-> ""]
    ELSE IF parent \notin DOMAIN n2c
    THEN [ret |-> <<>>, raised |-> "KeyError"]
    ELSE [ret |-> << n2c[parent] >>, raised |-> ""]

KeywordTableNodeIds ==
    LET r == KeywordTable_node_ids(table)
    IN  /\ call' = [op |-> "KeywordTable.node_ids", ret |-> r.ret, raised |-> r.raised]
        /\ UNCHANGED <<tableVars, dictVars, graphVars, listVars, ppVars>>

KeywordTableKeywords ==
    LET r == KeywordTable_keywords(table)
    IN  /\ call' = [op |-> "KeywordTable.keywords", ret |-> r.ret, raised |-> r.raised]
        /\ UNCHANGED <<tableVars, dictVars, graphVars, listVars, ppVars>>

KGNodeIds ==
    LET r == KG_node_ids(table)
    IN  /\ call' = [op |-> "KG.node_ids", ret |-> r.ret, raised |-> r.raised]
        /\ UNCHANGED <<tableVars, dictVars, graphVars, listVars, ppVars>>

GraphGetChildren ==
    \E parent \in NodeIds \cup {None} :
        LET r == IndexGraph_get_children(all_nodes, root_nodes, node_id_to_child_indices,
                                         parent)
        IN  /\ call' = [op |-> "get_children", parent |-> parent, ret |-> r.ret,
                        raised |-> r.raised]
            /\ UNCHANGED <<graphVars, dictVars, tableVars, listVars, ppVars>>

GraphGetChildrenIndices ==
    \E parent \in NodeIds \cup {None} :
        LET r == IndexGraph_get_children_indices(root_nodes, node_id_to_child_indices, parent)
        IN  /\ call' = [op |-> "get_children_indices", parent |-> parent, ret |-> r.ret,
                        raised |-> r.raised]
            /\ UNCHANGED <<graphVars, dictVars, tableVars, listVars, ppVars>>

\* A keyword struct and its reads, next to the reads of an IndexGraph that
\* holds no node.
NextTraversalReads ==
    \/ KGUpsertTriplet
    \/ KGAddNode
    \/ KGGetNodeIds
    \/ KGNodeIds
    \/ KeywordTableNodeIds
    \/ KeywordTableKeywords
    \/ GraphGetChildren

SpecTraversalReads == InitTable /\ [][NextTraversalReads]_vars

\* C25: on a struct that holds no node every read of the traversal returns
\* an empty collection and does not raise: node_ids of KeywordTable and of
\* KG the empty set, keywords the empty set, get_node_ids(keyword) the empty
\* list, and get_children(None) of an IndexGraph the empty mapping.
C25_EmptyStructReads ==
    /\ (call.op \in {"KeywordTable.node_ids", "KG.node_ids", "KeywordTable.keywords"}
        /\ DOMAIN table = {})
           => call.raised = "" /\ call.ret = << {} >>
    /\ (call.op = "get_node_ids" /\ call.depth = 1 /\ DOMAIN table = {})
           => call.raised = "" /\ call.ret = << <<>> >>
    /\ (call.op = "get_children" /\ call.parent = None /\ DOMAIN all_nodes = {})
           => call.raised = "" /\ call.ret = << EmptyDict >>

(***************************************************************************)
(* The IndexGraph with its reads: any sequence of insert,                  *)
(* insert_under_parent, get_children and get_children_indices.             *)
(***************************************************************************)
NextGraphReads ==
    \/ GraphInsert
    \/ GraphInsertUnderParent
    \/ GraphGetChildren
    \/ GraphGetChildrenIndices

SpecGraphReads == InitGraph /\ [][NextGraphReads]_vars

\* C29: every node id stored in all_nodes is a key of
\* node_id_to_child_indices, and get_children and get_children_indices of a
\* node stored in all_nodes return instead of raising KeyError.
C29_LeafHasChildSet ==
    /\ \A p \in DOMAIN all_nodes : all_nodes[p] \in DOMAIN node_id_to_child_indices
    /\ (call.op \in {"get_children", "get_children_indices"}
        /\ call.parent \in Range(all_nodes))
           => call.raised = ""

\* The node ids get_node_ids(keyword) is to return: those of the keyword and
\* of every object the keyword is related to.
ExpectedNodeIds(keyword) ==
    table[keyword]
    \cup UNION {IF rel_map[keyword][i][1] \in DOMAIN table
                THEN table[rel_map[keyword][i][1]] ELSE {} :
                    i \in (IF keyword \in DOMAIN rel_map THEN DOMAIN rel_map[keyword] ELSE {})}

\* C30: get_node_ids(keyword) with depth 1 returns a list in which every node
\* id occurs at most once and whose elements are the node ids of
\* table[keyword] and of table[obj] for every (obj, relation) in
\* rel_map[keyword]; for a keyword that is no key of table it returns the
\* empty list.
C30_UnionWithoutRepeats ==
    (call.op = "get_node_ids" /\ call.depth = 1)
        => /\ call.raised = ""
           /\ IF call.keyword \notin DOMAIN table
              THEN call.ret = << <<>> >>
              ELSE LET out == call.ret[1]
                   IN  /\ \A i, j \in DOMAIN out : i # j => out[i] # out[j]
                       /\ Range(out) = ExpectedNodeIds(call.keyword)

(***************************************************************************)
(* GPTListIndex: the IndexList together with the document store.  A node   *)
(* is a record of its node id and its ref_doc_id.  add_documents stores a  *)
(* node under its id, or fails and stores nothing; get_nodes_from_docstore *)
(* looks every id up and fails on an id the store does not hold.           *)
(***************************************************************************)
DocumentStore_add_documents(ds, n, fails) ==
    IF fails
    THEN [docstore |-> ds, raised |-> "ValueError"]
    ELSE [docstore |-> DictSet(ds, n.node_id, n), raised |-> ""]

get_nodes_from_docstore(ds, node_ids) ==
    IF \E i \in DOMAIN node_ids : node_ids[i] \notin DOMAIN ds
    THEN [ret |-> <<>>, raised |-> "NotFoundError"]
    ELSE [ret |-> [i \in DOMAIN node_ids |-> ds[node_ids[i]]], raised |-> ""]

\* The loop of _build_index_from_nodes and of _insert: add_node on the index
\* struct first, add_documents on the document store second.  fail_at is
\* the place in the batch of the node add_documents fails for, 0 for none.
RECURSIVE add_nodes_loop(_, _, _, _, _)
add_nodes_loop(ns, ds, rest, k, fail_at) ==
    IF rest = <<>>
    THEN [nodes |-> ns, docstore |-> ds, raised |-> ""]
    ELSE LET ns1 == IndexList_add_node(ns, Head(rest).node_id)
             r   == DocumentStore_add_documents(ds, Head(rest), k = fail_at)
         IN  IF r.raised # ""
             THEN [nodes |-> ns1, docstore |-> r.docstore, raised |-> r.raised]
             ELSE add_nodes_loop(ns1, r.docstore, Tail(rest), k + 1, fail_at)

\* _build_index_from_nodes(nodes) fills a new IndexList and returns it.
GPTListIndex_build_index_from_nodes(ds, batch, fail_at) ==
    add_nodes_loop(<<>>, ds, batch, 1, fail_at)

\* _insert(document), batch being the nodes of the document.
GPTListIndex_insert(ns, ds, batch, fail_at) ==
    add_nodes_loop(ns, ds, batch, 1, fail_at)

\* _delete that compares the id of the node itself with doc_id.
GPTListIndex_delete_ByNodeId(ns, ds, doc_id) ==
    LET cur_nodes == get_nodes_from_docstore(ds, ns)
        Keep(n) == n.node_id # doc_id
    IN  IF cur_nodes.raised # ""
        THEN [nodes |-> ns, raised |-> cur_nodes.raised]
        ELSE LET nodes_to_keep == SelectSeq(cur_nodes.ret, Keep)
             IN  [nodes |-> [i \in DOMAIN nodes_to_keep |-> nodes_to_keep[i].node_id],
                  raised |-> ""]

GPTListIndex_delete(ns, ds, doc_id) ==
    LET cur_nodes == get_nodes_from_docstore(ds, ns)
        Keep(n) == n.ref_doc_id # doc_id
    IN  IF cur_nodes.raised # ""
        THEN [nodes |-> ns, raised |-> cur_nodes.raised]
        ELSE LET nodes_to_keep == SelectSeq(cur_nodes.ret, Keep)
             IN  [nodes |-> [i \in DOMAIN nodes_to_keep |-> nodes_to_keep[i].node_id],
                  raised |-> ""]

IdBatches == {<<>>, <<"a">>, <<"b">>, <<"a", "b">>, <<"b", "a">>}

\* The nodes of one document.
DocumentNodes(doc_id, ids) == [i \in DOMAIN ids |-> [node_id |-> ids[i], ref_doc_id |-> doc_id]]

BuildBatches ==
    {DocumentNodes(d, ids) : d \in DocIds, ids \in IdBatches}
    \cup {<<[node_id |-> "a", ref_doc_id |-> "D"], [node_id |-> "b", ref_doc_id |-> "E"]>>}

InitListIndex ==
    /\ InitListFields
    /\ InitDictFields
    /\ InitGraphFields
    /\ InitTableFields
    /\ InitPPFields
    /\ call = [op |-> "init"]

\* The constructor builds the index struct; when the build raises, no index
\* struct is returned and the index keeps the empty one.
ListIndexBuild ==
    /\ call.op = "init"
    /\ \E batch \in BuildBatches :
           \E fail_at \in 0 .. Len(batch) :
               LET r == GPTListIndex_build_index_from_nodes(docstore, batch, fail_at)
               IN  /\ nodes' = IF r.raised = "" THEN r.nodes ELSE nodes
                   /\ docstore' = r.docstore
                   /\ call' = [op |-> "_build_index_from_nodes", batch |-> batch,
                               fail_at |-> fail_at, before |-> nodes, raised |-> r.raised]
                   /\ UNCHANGED <<dictVars, graphVars, tableVars, ppVars>>

ListIndexInsert ==
    \E doc_id \in DocIds, ids \in IdBatches :
        \E fail_at \in 0 .. Len(ids) :
            LET batch == DocumentNodes(doc_id, ids)
                r == GPTListIndex_insert(nodes, docstore, batch, fail_at)
            IN  /\ Len(r.nodes) <= MaxNodes
                /\ nodes' = r.nodes
                /\ docstore' = r.docstore
                /\ call' = [op |-> "_insert", batch |-> batch, fail_at |-> fail_at,
                            before |-> nodes, raised |-> r.raised]
                /\ UNCHANGED <<dictVars, graphVars, tableVars, ppVars>>

ListIndexDelete ==
    \E doc_id \in DocIds :
        LET r == GPTListIndex_delete(nodes, docstore, doc_id)
        IN  /\ nodes' = r.nodes
            /\ call' = [op |-> "_delete", doc_id |-> doc_id, before |-> nodes,
                        raised |-> r.raised]
            /\ UNCHANGED <<docstore, dictVars, graphVars, tableVars, ppVars>>

NextListIndex == ListIndexBuild \/ ListIndexInsert \/ ListIndexDelete

SpecListIndex == InitListIndex /\ [][NextListIndex]_vars

\* The node id refers to a node of the document doc_id.
RefersTo(node_id, doc_id) ==
    node_id \in DOMAIN docstore /\ docstore[node_id].ref_doc_id = doc_id

\* The number of places of the list s that hold x.
Occurrences(s, x) == Cardinality({i \in DOMAIN s : s[i] = x})

\* C26: when _delete(doc_id) returns, the nodes of the index struct are the
\* nodes before the call without every node id whose node has ref_doc_id =
\* doc_id: no such id is left, every other id is there as often as before,
\* and the ids kept are in the order they were in.
C26_DeleteRemovesMatching ==
    (call.op = "_delete" /\ call.raised = "")
        => /\ IsSubsequence(nodes, call.before)
           /\ \A id \in Range(call.before) :
                  IF RefersTo(id, call.doc_id)
                  THEN id \notin Range(nodes)
                  ELSE Occurrences(nodes, id) = Occurrences(call.before, id)

\* _delete has removed the nodes of one document from between and around the
\* nodes of another.
C26_Witness ==
    /\ call.op = "_delete"
    /\ call.raised = ""
    /\ Len(call.before) = 4
    /\ Len(nodes) = 2
    /\ RefersTo(call.before[1], call.doc_id)
    /\ ~RefersTo(call.before[2], call.doc_id)

\* C27: _delete(doc_id) on a list index none of whose nodes has ref_doc_id =
\* doc_id raises the not-found error and leaves the nodes of the index
\* struct as they were.
C27_DeleteUnreferencedRaises ==
    (call.op = "_delete" /\ \A i \in DOMAIN call.before : ~RefersTo(call.before[i], call.doc_id))
        => call.raised = "NotFoundError" /\ nodes = call.before

\* C28: whenever _build_index_from_nodes, _insert or _delete has returned or
\* raised, every node id in the nodes of the index struct is the id of a
\* node in the document store.
C28_NoDanglingListIds ==
    \A i \in DOMAIN nodes : nodes[i] \in DOMAIN docstore

====
